---------------------------- MODULE Spec2Model ----------------------------
(***************************************************************************)
(* Growth standardization and risk classification engine.                  *)
(*                                                                         *)
(* Sources: backend/api/zscore_calculator.py (ZScoreCalculator),           *)
(*          backend/api/utils.py (prepare_features, predict_growth_risk).  *)
(*                                                                         *)
(* Number representation.  Python floats are modelled in fixed point:      *)
(*   - call arguments (ages, heights, weights) in units of 1/10^4,         *)
(*   - the table's L in 1/10^4, M in 1/10^4, S in 1/10^5 (the table's      *)
(*     literals have exactly that many decimals, so they are exact),       *)
(*   - ratios and powers in units of 1/10^7,                               *)
(*   - z-scores in units of 1/10^6.                                        *)
(* Python strings that the code inspects character by character (lower(),  *)
(* the `in` substring test) are sequences of one-character strings.        *)
(***************************************************************************)
EXTENDS Integers, Sequences, FiniteSets, TLC

VARIABLES
    req,          \* the call a client makes in this run: operation and arguments
    lms_call,     \* outcome of the ZScoreCalculator._get_lms call
    lms_again,    \* outcome of repeating that call with the same arguments
    z_call,       \* outcome of the calculate_z_score / wrapper call
    norm_call,    \* outcome of mapping a raw class label to a risk category
    norm_again,   \* outcome of mapping that risk category once more
    encoder_file, \* ENCODER_PATH on disk: the label vocabulary last saved
    model_file,   \* MODEL_PATH on disk: the classifier last saved
    risk_call,    \* outcome of the predict_growth_risk call
    clf_call,     \* the classifier's part in that call: the model used, its
                  \* answer and the label encoder the answer was decoded with
    who_standards,\* GrowthPredictor.who_standards: the rows of the growth data file
    status_call,  \* outcome of the get_status call
    proj_call,    \* outcome of the GrowthPredictor.predict call
    babies,       \* ids of the Baby rows in the database
    growth_records, \* the GrowthRecord rows in the database, in order of creation
    api_call      \* the Response of the add_growth_record / predict_growth_risk_api view

vars == <<req, lms_call, lms_again, z_call, norm_call, norm_again,
          encoder_file, model_file, risk_call, clf_call, who_standards, status_call,
          proj_call, babies, growth_records, api_call>>

lms_vars == <<lms_call, lms_again, z_call>>

norm_vars == <<norm_call, norm_again>>

risk_vars == <<encoder_file, model_file, risk_call, clf_call>>

proj_vars == <<who_standards, status_call, proj_call>>

api_vars == <<babies, growth_records, api_call>>

NoFile == [exists |-> FALSE]

File(classes) == [exists |-> TRUE, classes |-> classes]

---------------------------------------------------------------------------
(* Python values and outcomes *)

None == [t |-> "None"]

Str(s) == [t |-> "str", s |-> s]

Num(v) == [t |-> "num", v |-> v]

Ok(v) == [ok |-> TRUE, val |-> v]

Raise(e) == [ok |-> FALSE, exc |-> e]

Idle == [op |-> "idle"]

U == 10 ^ 4

s_male == <<"m", "a", "l", "e">>

s_female == <<"f", "e", "m", "a", "l", "e">>

UpperToLower ==
    [c \in {"A", "B", "C", "D", "E", "F", "G", "H", "I", "J", "K", "L", "M",
            "N", "O", "P", "Q", "R", "S", "T", "U", "V", "W", "X", "Y", "Z"} |->
        CASE c = "A" -> "a" [] c = "B" -> "b" [] c = "C" -> "c" [] c = "D" -> "d"
          [] c = "E" -> "e" [] c = "F" -> "f" [] c = "G" -> "g" [] c = "H" -> "h"
          [] c = "I" -> "i" [] c = "J" -> "j" [] c = "K" -> "k" [] c = "L" -> "l"
          [] c = "M" -> "m" [] c = "N" -> "n" [] c = "O" -> "o" [] c = "P" -> "p"
          [] c = "Q" -> "q" [] c = "R" -> "r" [] c = "S" -> "s" [] c = "T" -> "t"
          [] c = "U" -> "u" [] c = "V" -> "v" [] c = "W" -> "w" [] c = "X" -> "x"
          [] c = "Y" -> "y" [] c = "Z" -> "z"]

\* str.lower(): every upper-case letter replaced by its lower-case letter.
lower(s) ==
    [i \in 1..Len(s) |-> IF s[i] \in DOMAIN UpperToLower THEN UpperToLower[s[i]] ELSE s[i]]

\* int(x) of a Python number: truncation toward zero.
PyInt(v) == IF v >= 0 THEN v \div U ELSE -((-v) \div U)

Abs(x) == IF x < 0 THEN -x ELSE x

---------------------------------------------------------------------------
(* ZScoreCalculator.HEIGHT_LMS / WEIGHT_LMS: gender -> age band -> (L, M, S) *)

HEIGHT_LMS ==
    (s_male :> (   0 :> <<10000,  498842, 3795>> @@  1 :> <<10000,  547244, 3557>>
               @@  2 :> <<10000,  584249, 3424>> @@  3 :> <<10000,  614292, 3328>>
               @@  6 :> <<10000,  672516, 3257>> @@  9 :> <<10000,  714818, 3220>>
               @@ 12 :> <<10000,  756709, 3164>> @@ 18 :> <<10000,  827761, 2922>>
               @@ 24 :> <<10000,  870940, 2796>> @@ 36 :> <<10000,  952506, 2634>>
               @@ 48 :> <<10000, 1023520, 2544>> @@ 60 :> <<10000, 1084110, 2519>>))
    @@
    (s_female :> ( 0 :> <<10000,  491477, 3790>> @@  1 :> <<10000,  536872, 3640>>
               @@  2 :> <<10000,  570673, 3568>> @@  3 :> <<10000,  598029, 3520>>
               @@  6 :> <<10000,  654606, 3424>> @@  9 :> <<10000,  698135, 3390>>
               @@ 12 :> <<10000,  740000, 3337>> @@ 18 :> <<10000,  806980, 3192>>
               @@ 24 :> <<10000,  856346, 3090>> @@ 36 :> <<10000,  941076, 2917>>
               @@ 48 :> <<10000, 1010540, 2818>> @@ 60 :> <<10000, 1074180, 2777>>))

WEIGHT_LMS ==
    (s_male :> (   0 :> <<3487,  33464, 14602>> @@  1 :> <<2297,  44709, 13395>>
               @@  2 :> <<1970,  55675, 12385>> @@  3 :> <<1738,  63762, 11727>>
               @@  6 :> <<1553,  79322, 11316>> @@  9 :> <<1395,  89626, 11080>>
               @@ 12 :> <<1268,  97289, 10958>> @@ 18 :> <<1041, 107095, 11047>>
               @@ 24 :> << 876, 114805, 11228>> @@ 36 :> << 670, 133460, 11023>>
               @@ 48 :> << 549, 150990, 10816>> @@ 60 :> << 448, 165140, 10632>>))
    @@
    (s_female :> ( 0 :> << 3809,  32322, 14171>> @@  1 :> << 1714,  41873, 14478>>
               @@  2 :> <<  960,  51282, 13270>> @@  3 :> <<  402,  58458, 12360>>
               @@  6 :> <<  -50,  72400, 11727>> @@  9 :> << -430,  81466, 11364>>
               @@ 12 :> << -756,  88750, 11101>> @@ 18 :> <<-1399,  98129, 10842>>
               @@ 24 :> <<-1911, 105561, 10741>> @@ 36 :> <<-2384, 121080, 10632>>
               @@ 48 :> <<-2689, 137610, 10408>> @@ 60 :> <<-2708, 153510, 10115>>))

---------------------------------------------------------------------------
(* ZScoreCalculator._get_lms *)

SetMin(S) == CHOOSE x \in S : \A y \in S : x <= y

RECURSIVE sorted(_)
\* sorted(keys): the keys in ascending order.
sorted(S) == IF S = {} THEN <<>> ELSE <<SetMin(S)>> \o sorted(S \ {SetMin(S)})

RECURSIVE MinFrom(_, _, _, _)
\* The scan of min(seq, key = |x - age|): a later element replaces the best one
\* only when its key is strictly smaller, so the first minimal element wins.
MinFrom(seq, i, best, age) ==
    IF i > Len(seq) THEN best
    ELSE MinFrom(seq, i + 1,
                 IF Abs(seq[i] - age) < Abs(best - age) THEN seq[i] ELSE best,
                 age)

RECURSIVE MinFromLast(_, _, _, _)
\* The same scan with <= in place of <: the last minimal element wins.
MinFromLast(seq, i, best, age) ==
    IF i > Len(seq) THEN best
    ELSE MinFromLast(seq, i + 1,
                     IF Abs(seq[i] - age) <= Abs(best - age) THEN seq[i] ELSE best,
                     age)

\* Mutant of closest_age: ties resolved toward the later (higher) band.
closest_age_last(available_ages, age) ==
    MinFromLast(available_ages, 2, available_ages[1], age)

RECURSIVE FloorFrom(_, _, _, _)
FloorFrom(seq, i, best, age) ==
    IF i > Len(seq) THEN best
    ELSE FloorFrom(seq, i + 1, IF seq[i] <= age THEN seq[i] ELSE best, age)

\* Mutant of closest_age: the last band not above the age instead of the nearest.
closest_age_floor(available_ages, age) ==
    FloorFrom(available_ages, 2, available_ages[1], age)

\* min(available_ages, key=lambda x: abs(x - age_months))
closest_age(available_ages, age) == MinFrom(available_ages, 2, available_ages[1], age)

\* lms_table = cls.HEIGHT_LMS if metric == 'height' else cls.WEIGHT_LMS
lms_table(metric) == IF metric = "height" THEN HEIGHT_LMS ELSE WEIGHT_LMS

\* _get_lms(age_months, gender, metric): gender is a Python value (Str or None),
\* age_months a Python number, metric a Python string.
get_lms(age_months, gender, metric) ==
    IF gender.t # "str" THEN Raise("ValueError")            \* AttributeError
    ELSE LET g     == lower(gender.s)
             age   == PyInt(age_months)
             table == lms_table(metric)
         IN  IF g \notin DOMAIN table THEN Raise("ValueError")   \* KeyError
             ELSE Ok(table[g][closest_age(sorted(DOMAIN table[g]), age)])

---------------------------------------------------------------------------
(* Fixed-point arithmetic on 32-bit integers *)

RECURSIVE MulDivQR(_, _, _)
\* <<q, r>> with a * b = q * c + r and 0 <= r < c, for a, b >= 0 and c > 0,
\* taking b sixteen at a time so that no intermediate exceeds 32 * c.
MulDivQR(a, b, c) ==
    IF b = 0 THEN <<0, 0>>
    ELSE LET h  == MulDivQR(a, b \div 16, c)
             rr == 16 * h[2] + (b % 16) * (a % c)
         IN  <<16 * h[1] + (b % 16) * (a \div c) + rr \div c, rr % c>>

Sign(x) == IF x < 0 THEN -1 ELSE 1

\* a * b / c, truncated toward zero.
MulDiv(a, b, c) == Sign(a) * Sign(b) * Sign(c) * MulDivQR(Abs(a), Abs(b), Abs(c))[1]

F7 == 10 ^ 7

\* ln(2)
LN2 == 6931472 * 1

RECURSIVE LnSeries(_, _)
\* 1/k + y2 * (1/(k+2) + y2 * (...)), the odd-power series of atanh, to y^11.
LnSeries(y2, k) == IF k > 11 THEN 0 ELSE F7 \div k + MulDiv(y2, LnSeries(y2, k + 2), F7)

RECURSIVE Ln7(_)
\* ln(x) for x > 0: halve or double x into [0.75, 1.5], then 2 * atanh((x-1)/(x+1)).
Ln7(x) ==
    IF x > 15000000 THEN LN2 + Ln7(x \div 2)
    ELSE IF x < 7500000 THEN Ln7(2 * x) - LN2
    ELSE LET y == MulDiv(x - F7, F7, x + F7)
         IN  2 * MulDiv(y, LnSeries(MulDiv(y, y, F7), 1), F7)

RECURSIVE ExpHorner(_, _)
\* 1 + t/n * (1 + t/(n+1) * (...)), the Taylor series of exp in Horner form, to t^9.
ExpHorner(t, n) ==
    IF n > 9 THEN F7 ELSE F7 + MulDiv(MulDiv(t, ExpHorner(t, n + 1), F7), 1, n)

\* exp(t) = exp(t/4)^4 (|t| stays below 2.5 for the inputs used).
Exp7(t) ==
    LET e  == ExpHorner(MulDiv(t, 1, 4), 1)
        e2 == MulDiv(e, e, F7)
    IN  MulDiv(e2, e2, F7)

Float(v) == [kind |-> "float", v |-> v]

Complex == [kind |-> "complex"]

\* Python's x ** L for a float x (units 1/10^7) and the table's L (units 1/10^4):
\* a negative base with a non-integral exponent gives a complex number, zero to
\* a negative power raises ZeroDivisionError.  The only integral L of the
\* tables is 1, for which x ** 1 = x.
PyPow(x, L) ==
    IF L = U THEN Ok(Float(x))
    ELSE IF x > 0 THEN Ok(Float(Exp7(MulDiv(Ln7(x), L, U))))
    ELSE IF x = 0 THEN (IF L > 0 THEN Ok(Float(0)) ELSE Raise("ZeroDivisionError"))
    ELSE Ok(Complex)

---------------------------------------------------------------------------
(* ZScoreCalculator.calculate_z_score and its wrappers *)

\* z = math.log(value / M) / S
log_branch(value, M, S) ==
    IF M = 0 THEN Raise("ZeroDivisionError")
    ELSE LET x == MulDiv(value, F7, M)
         IN  IF x <= 0 THEN Raise("ValueError")               \* math domain error
             ELSE IF S = 0 THEN Raise("ZeroDivisionError")
             ELSE Ok(Float(MulDiv(Ln7(x), 10000, S)))

\* Mutant of power_branch: the subtraction of 1 left out.
power_branch_unshifted(value, L, M, S) ==
    IF M = 0 THEN Raise("ZeroDivisionError")
    ELSE LET p == PyPow(MulDiv(value, F7, M), L)
         IN  IF ~p.ok THEN p
             ELSE IF L * S = 0 THEN Raise("ZeroDivisionError")
             ELSE IF p.val.kind = "complex" THEN Ok(Complex)
             ELSE Ok(Float(MulDiv(p.val.v, 100000000, L * S)))

\* z = ((value / M) ** L - 1) / (L * S)
power_branch(value, L, M, S) ==
    IF M = 0 THEN Raise("ZeroDivisionError")
    ELSE LET p == PyPow(MulDiv(value, F7, M), L)
         IN  IF ~p.ok THEN p
             ELSE IF L * S = 0 THEN Raise("ZeroDivisionError")
             ELSE IF p.val.kind = "complex" THEN Ok(Complex)
             ELSE Ok(Float(MulDiv(p.val.v - F7, 100000000, L * S)))

\* Mutant of use_log_branch: the test written against 1 instead of 0.
use_log_branch_one(L) == L = U

\* if L == 0: ... else: ...
use_log_branch(L) == L = 0

\* The body of calculate_z_score with the branch it took; every ValueError and
\* ZeroDivisionError is re-raised as ValueError.
z_score_body(value, age_months, gender, metric) ==
    LET lms == get_lms(age_months, gender, metric)
    IN  IF ~lms.ok THEN [branch |-> "none", out |-> Raise("ValueError")]
        ELSE LET L == lms.val[1]
                 M == lms.val[2]
                 S == lms.val[3]
                 z == IF use_log_branch(L) THEN log_branch(value, M, S)
                                           ELSE power_branch(value, L, M, S)
             IN  [branch |-> IF use_log_branch(L) THEN "log" ELSE "power",
                  out    |-> IF z.ok THEN z ELSE Raise("ValueError")]

calculate_z_score(value, age_months, gender, metric) ==
    z_score_body(value, age_months, gender, metric).out

calculate_height_z_score(height_cm, age_months, gender) ==
    calculate_z_score(height_cm, age_months, gender, "height")

calculate_weight_z_score(weight_kg, age_months, gender) ==
    calculate_z_score(weight_kg, age_months, gender, "weight")

---------------------------------------------------------------------------
(* Inputs of the lookup and of the z-score calculator *)

AgeBelow == 4

AgeAbove == 126

\* Ages from -2.0 to 63.0 months in steps of half a month.
AgeInputs == {k * (U \div 2) : k \in (-AgeBelow)..AgeAbove}

\* Whole-month ages, for the calculator calls.
WholeAgeInputs == {a \in AgeInputs : a % U = 0}

GenderInputs ==
    {Str(s_male), Str(s_female), Str(<<"M", "a", "l", "e">>),
     Str(<<"o", "t", "h", "e", "r">>), None}

MetricInputs == {"height", "weight", "bmi"}

\* Measurements: -5, 0, 5, 9.8, 75.5 and 110 (cm or kg).
ValueInputs == {-50000, 0, 50000, 98000, 755000, 1100000}

LmsRequests ==
    [op : {"_get_lms"}, age_months : AgeInputs, gender : GenderInputs,
     metric : MetricInputs]

ZRequests ==
    [op : {"calculate_z_score"}, value : ValueInputs, age_months : WholeAgeInputs,
     gender : GenderInputs, metric : MetricInputs]

WrapperRequests ==
    [op : {"calculate_height_z_score", "calculate_weight_z_score"},
     value : ValueInputs, age_months : WholeAgeInputs, gender : GenderInputs]

InitLms ==
    /\ req \in LmsRequests \cup ZRequests \cup WrapperRequests
    /\ lms_call = Idle
    /\ lms_again = Idle
    /\ z_call = Idle
    /\ norm_call = Idle
    /\ norm_again = Idle
    /\ encoder_file = NoFile
    /\ model_file = NoFile
    /\ risk_call = Idle
    /\ clf_call = Idle
    /\ who_standards = <<>>
    /\ status_call = Idle
    /\ proj_call = Idle
    /\ babies = {}
    /\ growth_records = <<>>
    /\ api_call = Idle

\* The client's _get_lms call runs.
GetLms ==
    /\ req.op = "_get_lms"
    /\ lms_call = Idle
    /\ lms_call' = [op |-> "_get_lms",
                    out |-> get_lms(req.age_months, req.gender, req.metric)]
    /\ UNCHANGED <<req, lms_again, z_call, norm_vars, risk_vars, proj_vars, api_vars>>

\* The client repeats the _get_lms call with identical arguments.
RepeatLms ==
    /\ req.op = "_get_lms"
    /\ lms_call # Idle
    /\ lms_again = Idle
    /\ lms_again' = [op |-> "_get_lms",
                     out |-> get_lms(req.age_months, req.gender, req.metric)]
    /\ UNCHANGED <<req, lms_call, z_call, norm_vars, risk_vars, proj_vars, api_vars>>

\* The client's calculate_z_score call runs.
CalcZ ==
    /\ req.op = "calculate_z_score"
    /\ z_call = Idle
    /\ LET b == z_score_body(req.value, req.age_months, req.gender, req.metric)
       IN  z_call' = [op |-> req.op, branch |-> b.branch, out |-> b.out]
    /\ UNCHANGED <<req, lms_call, lms_again, norm_vars, risk_vars, proj_vars, api_vars>>

\* The client's calculate_height_z_score call runs.
CalcHeightZ ==
    /\ req.op = "calculate_height_z_score"
    /\ z_call = Idle
    /\ z_call' = [op |-> req.op,
                  out |-> calculate_height_z_score(req.value, req.age_months, req.gender)]
    /\ UNCHANGED <<req, lms_call, lms_again, norm_vars, risk_vars, proj_vars, api_vars>>

\* The client's calculate_weight_z_score call runs.
CalcWeightZ ==
    /\ req.op = "calculate_weight_z_score"
    /\ z_call = Idle
    /\ z_call' = [op |-> req.op,
                  out |-> calculate_weight_z_score(req.value, req.age_months, req.gender)]
    /\ UNCHANGED <<req, lms_call, lms_again, norm_vars, risk_vars, proj_vars, api_vars>>

NextLms == GetLms \/ RepeatLms \/ CalcZ \/ CalcHeightZ \/ CalcWeightZ

SpecLms == InitLms /\ [][NextLms]_vars

---------------------------------------------------------------------------
(* Properties of the reference-table lookup and of the z-score calculator *)

\* The sex tokens the lookup recognizes (it lower-cases the token first).
RecognizedGender(g) == g.t = "str" /\ lower(g.s) \in {s_male, s_female}

RecognizedMetric(m) == m \in {"height", "weight"}

\* The (sex, metric) table of the reference standard.
TableOf(g, m) == IF m = "height" THEN HEIGHT_LMS[lower(g.s)] ELSE WEIGHT_LMS[lower(g.s)]

\* Distance, in units of 1/10^4 month, between a band and a requested age.
Dist(band, age_months) == Abs(band * U - age_months)

LmsDone == req.op = "_get_lms" /\ lms_call # Idle

LmsValidRequest == RecognizedGender(req.gender) /\ RecognizedMetric(req.metric)

C6_TieTowardLowerBand ==
    (LmsDone /\ LmsValidRequest) =>
        \A b1, b2 \in DOMAIN TableOf(req.gender, req.metric) :
            ( /\ b1 < b2
              /\ Dist(b1, req.age_months) = Dist(b2, req.age_months)
              /\ \A b3 \in DOMAIN TableOf(req.gender, req.metric) :
                    Dist(b1, req.age_months) <= Dist(b3, req.age_months) )
            => lms_call.out = Ok(TableOf(req.gender, req.metric)[b1])

\* C6 witness: age 15, male, height returned the entry of band 12, not of 18.
C6_Witness ==
    /\ LmsDone
    /\ req.age_months = 15 * U
    /\ req.gender = Str(s_male)
    /\ req.metric = "height"
    /\ lms_call.out = Ok(<<10000, 756709, 3164>>)

\* C7: _get_lms fails whenever sex is not male/female or metric is not
\* height/weight; it never returns an entry of some table for such a call.
C7_UnrecognizedLookupFails ==
    (LmsDone /\ ~LmsValidRequest) => ~lms_call.out.ok

ZDone == req.op = "calculate_z_score" /\ z_call # Idle

HeightWrapperDone == req.op = "calculate_height_z_score" /\ z_call # Idle

WeightWrapperDone == req.op = "calculate_weight_z_score" /\ z_call # Idle

\* The band nearest to a whole-month age, the lower one on a tie.
NearestBand(table, age_months) ==
    CHOOSE b \in DOMAIN table :
        \A b2 \in DOMAIN table :
            \/ Dist(b, age_months) < Dist(b2, age_months)
            \/ (Dist(b, age_months) = Dist(b2, age_months) /\ b <= b2)

\* The LMS formula for an entry <<L, M, S>>; any arithmetic failure is a ValueError.
LmsFormula(value, lms) ==
    LET z == IF lms[1] = 0 THEN log_branch(value, lms[2], lms[3])
                           ELSE power_branch(value, lms[1], lms[2], lms[3])
    IN  IF z.ok THEN z ELSE Raise("ValueError")

ReferenceScore(value, age_months, g, m) ==
    LmsFormula(value, TableOf(g, m)[NearestBand(TableOf(g, m), age_months)])

\* C8: calculate_z_score takes the log branch exactly when the looked-up L is 0
\* and the power branch exactly when it is not, applied to the (L, M, S) of the
\* band nearest to the age for the given sex and metric; and
\* calculate_height_z_score / calculate_weight_z_score return what
\* calculate_z_score returns for metric height / weight.
C8_BranchByLAndWrappers ==
    /\ (ZDone /\ RecognizedGender(req.gender) /\ RecognizedMetric(req.metric)) =>
          LET lms == TableOf(req.gender, req.metric)
                         [NearestBand(TableOf(req.gender, req.metric), req.age_months)]
          IN  /\ (z_call.branch = "log") <=> (lms[1] = 0)
              /\ (z_call.branch = "power") <=> (lms[1] # 0)
              /\ z_call.out = LmsFormula(req.value, lms)
    /\ (HeightWrapperDone /\ RecognizedGender(req.gender)) =>
          z_call.out = ReferenceScore(req.value, req.age_months, req.gender, "height")
    /\ (WeightWrapperDone /\ RecognizedGender(req.gender)) =>
          z_call.out = ReferenceScore(req.value, req.age_months, req.gender, "weight")

\* C8 witness: calculate_z_score(9.8, 12, 'male', 'weight') took the power
\* branch and returned 0.066 (to three decimals).
C8_Witness ==
    /\ ZDone
    /\ req.value = 98000
    /\ req.age_months = 12 * U
    /\ req.gender = Str(s_male)
    /\ req.metric = "weight"
    /\ z_call.branch = "power"
    /\ z_call.out.ok
    /\ z_call.out.val.kind = "float"
    /\ z_call.out.val.v \in 65500..67500

AnyZDone == ZDone \/ HeightWrapperDone \/ WeightWrapperDone

\* C9: every call with value <= 0 fails and returns no score, on either
\* branch and for both metrics.
C9_NonPositiveValueFails ==
    (AnyZDone /\ req.value <= 0) => ~z_call.out.ok

\* C10: every call with age_months below 0 or above 60 fails; the entry of the
\* boundary band (0 or 60) is never used for such an age.
C10_AgeOutOfRangeFails ==
    (AnyZDone /\ (req.age_months < 0 \/ req.age_months > 60 * U)) => ~z_call.out.ok

---------------------------------------------------------------------------
(* Risk label normalization (predict_growth_risk, "Map to standardized risk
   categories") *)

s_stunt == <<"s", "t", "u", "n", "t">>

s_under == <<"u", "n", "d", "e", "r">>

s_over == <<"o", "v", "e", "r">>

s_obese == <<"o", "b", "e", "s", "e">>

s_weight == <<"w", "e", "i", "g", "h", "t">>

s_ed == <<"e", "d">>

s_severely_ == <<"s", "e", "v", "e", "r", "e", "l", "y", "_">>

s_normal == <<"n", "o", "r", "m", "a", "l">>

s_stunted == s_stunt \o s_ed

s_underweight == s_under \o s_weight

s_overweight == s_over \o s_weight

s_severely_underweight == s_severely_ \o s_underweight

s_severely_overweight == s_severely_ \o s_overweight

\* Python's `sub in s` on strings.
Contains(s, sub) ==
    \E i \in 1..(Len(s) - Len(sub) + 1) : SubSeq(s, i, i + Len(sub) - 1) = sub

\* Mutant of map_risk_category: the 'under' test placed before the 'stunt' test.
map_risk_category_under_first(risk_status) ==
    IF \/ Contains(risk_status, s_underweight)
       \/ Contains(risk_status, s_under)
       \/ Contains(risk_status, s_severely_underweight)
    THEN s_underweight
    ELSE IF Contains(risk_status, s_stunt) THEN s_stunted
    ELSE IF \/ Contains(risk_status, s_overweight)
            \/ Contains(risk_status, s_over)
            \/ Contains(risk_status, s_obese)
            \/ Contains(risk_status, s_severely_overweight)
    THEN s_overweight
    ELSE s_normal

\* Mutant of map_risk_category: the overweight category named 'obese'.
map_risk_category_obese(risk_status) ==
    IF Contains(risk_status, s_stunt) THEN s_stunted
    ELSE IF \/ Contains(risk_status, s_underweight)
            \/ Contains(risk_status, s_under)
            \/ Contains(risk_status, s_severely_underweight)
    THEN s_underweight
    ELSE IF \/ Contains(risk_status, s_overweight)
            \/ Contains(risk_status, s_over)
            \/ Contains(risk_status, s_obese)
            \/ Contains(risk_status, s_severely_overweight)
    THEN s_obese
    ELSE s_normal

\* if 'stunt' in risk_status: ... elif ... elif ... else: 'normal'
map_risk_category(risk_status) ==
    IF Contains(risk_status, s_stunt) THEN s_stunted
    ELSE IF \/ Contains(risk_status, s_underweight)
            \/ Contains(risk_status, s_under)
            \/ Contains(risk_status, s_severely_underweight)
    THEN s_underweight
    ELSE IF \/ Contains(risk_status, s_overweight)
            \/ Contains(risk_status, s_over)
            \/ Contains(risk_status, s_obese)
            \/ Contains(risk_status, s_severely_overweight)
    THEN s_overweight
    ELSE s_normal

\* risk_status = str(le.classes_[predicted_class_idx]).lower(), then the mapping.
normalize_label(raw_label) == map_risk_category(lower(raw_label))

---------------------------------------------------------------------------
(* Inputs of the label normalization *)

\* Pieces of class labels; "st" + "unt" and "un" + "der" let a keyword arise
\* across a boundary, "Stunt" and "OVER" exercise lower().
LabelFragments ==
    {s_stunt, s_under, s_over, s_obese, s_weight, s_ed, s_severely_, s_normal,
     <<"s", "t">>, <<"u", "n", "t">>, <<"S", "t", "u", "n", "t">>,
     <<"O", "V", "E", "R">>}

MaxFragments == 3

RECURSIVE LabelsOf(_)
\* Every concatenation of at most n fragments.
LabelsOf(n) ==
    IF n = 0 THEN {<<>>}
    ELSE LabelsOf(n - 1) \cup {l \o f : l \in LabelsOf(n - 1), f \in LabelFragments}

LabelInputs == LabelsOf(MaxFragments)

NormRequests == [op : {"normalize_label"}, label : LabelInputs]

InitNorm ==
    /\ req \in NormRequests
    /\ lms_call = Idle
    /\ lms_again = Idle
    /\ z_call = Idle
    /\ norm_call = Idle
    /\ norm_again = Idle
    /\ encoder_file = NoFile
    /\ model_file = NoFile
    /\ risk_call = Idle
    /\ clf_call = Idle
    /\ who_standards = <<>>
    /\ status_call = Idle
    /\ proj_call = Idle
    /\ babies = {}
    /\ growth_records = <<>>
    /\ api_call = Idle

\* The raw label is lower-cased and mapped to a risk category.
NormalizeLabel ==
    /\ req.op = "normalize_label"
    /\ norm_call = Idle
    /\ norm_call' = [op |-> req.op, out |-> normalize_label(req.label)]
    /\ UNCHANGED <<req, lms_vars, norm_again, risk_vars, proj_vars, api_vars>>

\* The resulting category is itself taken as a label and mapped again.
NormalizeAgain ==
    /\ req.op = "normalize_label"
    /\ norm_call # Idle
    /\ norm_again = Idle
    /\ norm_again' = [op |-> req.op, out |-> normalize_label(norm_call.out)]
    /\ UNCHANGED <<req, lms_vars, norm_call, risk_vars, proj_vars, api_vars>>

NextNorm == NormalizeLabel \/ NormalizeAgain

SpecNorm == InitNorm /\ [][NextNorm]_vars

---------------------------------------------------------------------------
(* Properties of the label normalization *)

RiskCategories == {s_normal, s_underweight, s_stunted, s_overweight}

\* sub occurs in s at some offset (stated position by position).
HasSub(s, sub) ==
    \E off \in 0..Len(s) :
        /\ off + Len(sub) <= Len(s)
        /\ \A k \in 1..Len(sub) : s[off + k] = sub[k]

NormDone == req.op = "normalize_label" /\ norm_call # Idle

\* C3: every raw label maps to exactly one of stunted, underweight, overweight,
\* normal, decided on the lower-cased label by the first test that matches in
\* the order "stunt", "under", "over" or "obese", otherwise normal; a label
\* containing "stunt" maps to stunted even if it also contains "under" or "over".
C3_NormalizationPriority ==
    NormDone =>
        LET l == lower(req.label)
        IN  /\ norm_call.out \in RiskCategories
            /\ HasSub(l, s_stunt) => norm_call.out = s_stunted
            /\ (~HasSub(l, s_stunt) /\ HasSub(l, s_under)) => norm_call.out = s_underweight
            /\ ( /\ ~HasSub(l, s_stunt)
                 /\ ~HasSub(l, s_under)
                 /\ (HasSub(l, s_over) \/ HasSub(l, s_obese)) ) => norm_call.out = s_overweight
            /\ ( /\ ~HasSub(l, s_stunt)
                 /\ ~HasSub(l, s_under)
                 /\ ~HasSub(l, s_over)
                 /\ ~HasSub(l, s_obese) ) => norm_call.out = s_normal
            /\ HasSub(req.label, s_stunt) => norm_call.out = s_stunted

\* C3 witness: the label "understunted" (it contains "under" and "stunt")
\* was mapped to stunted.
C3_Witness ==
    /\ NormDone
    /\ req.label = s_under \o s_stunt \o s_ed
    /\ norm_call.out = s_stunted

\* C4: each of normal, underweight, stunted, overweight maps to itself, and
\* mapping the result of a normalization again returns the same category.
C4_NormalizationIdempotent ==
    /\ (NormDone /\ req.label \in RiskCategories) => norm_call.out = req.label
    /\ (NormDone /\ norm_again # Idle) => norm_again.out = norm_call.out

\* C4 witness: "severely_overweight" was mapped to overweight, and overweight
\* was mapped to overweight again.
C4_Witness ==
    /\ NormDone
    /\ req.label = s_severely_overweight
    /\ norm_call.out = s_overweight
    /\ norm_again # Idle
    /\ norm_again.out = s_overweight

---------------------------------------------------------------------------
(* utils.py: prepare_features, train_growth_risk_model, get_growth_risk_model *)

\* prepare_features: the columns, in order, of the training matrix X.
features ==
    <<"age_months", "gender_encoded", "height_cm", "weight_kg", "bmi",
      "z_score_weight", "z_score_height">>

\* What train_growth_risk_model leaves on disk.  `train` is how the run ends:
\*   "ok"         - prepare_features saved the encoder, then the model was
\*                  fitted and saved;
\*   "data_error" - load_growth_data or the sample-count check raised before
\*                  prepare_features ran: nothing is written;
\*   "fit_error"  - prepare_features saved the encoder, then the split or the
\*                  fit raised: the model file is left as it was.
\* `classes` is le_status.classes_ of this run's data.
files_after_training(train, classes, enc, mdl) ==
    [encoder |-> IF train \in {"ok", "fit_error"} THEN File(classes) ELSE enc,
     model   |-> IF train = "ok" THEN File(classes) ELSE mdl]

\* get_growth_risk_model: always retrains; when training raises, loads the saved
\* model if both files exist, else re-raises.  A model is represented by the
\* classes_ of the run that fitted it.
get_growth_risk_model(train, classes, enc, mdl) ==
    LET f == files_after_training(train, classes, enc, mdl)
    IN  IF train = "ok" THEN Ok(classes)
        ELSE IF f.model.exists /\ f.encoder.exists THEN Ok(f.model.classes)
        ELSE Raise("Exception")

---------------------------------------------------------------------------
(* utils.py: predict_growth_risk *)

\* str(x) of a Python value.
py_str(x) == IF x.t = "str" THEN x.s ELSE <<"N", "o", "n", "e">>

RECURSIVE SeqMaxFrom(_, _)
SeqMaxFrom(seq, i) ==
    IF i = Len(seq) THEN seq[i]
    ELSE LET m == SeqMaxFrom(seq, i + 1) IN IF seq[i] >= m THEN seq[i] ELSE m

\* Mutant of np_max: the first entry instead of the largest.
np_max_first(seq) == seq[1]

\* np.max(y_proba)
np_max(seq) == SeqMaxFrom(seq, 1)

\* np.argmax(y_proba[0]): the 0-based position of the first maximum.
np_argmax(seq) == (CHOOSE i \in 1..Len(seq) :
                      /\ seq[i] = np_max(seq)
                      /\ \A j \in 1..(i - 1) : seq[j] # np_max(seq)) - 1

\* Mutant of feature_vector: the two z-score fields in the opposite order.
feature_vector_swapped(age_months, gender, height_cm, weight_kg, bmi, zw, zh) ==
    << [name |-> "age_months",     value |-> age_months],
       [name |-> "gender_encoded", value |-> IF gender = s_male THEN 1 ELSE 0],
       [name |-> "height_cm",      value |-> height_cm],
       [name |-> "weight_kg",      value |-> weight_kg],
       [name |-> "bmi",            value |-> bmi],
       [name |-> "z_score_height", value |-> zh],
       [name |-> "z_score_weight", value |-> zw] >>

\* The feature_vector dict, in insertion order (the DataFrame's column order).
feature_vector(age_months, gender, height_cm, weight_kg, bmi, zw, zh) ==
    << [name |-> "age_months",     value |-> age_months],
       [name |-> "gender_encoded", value |-> IF gender = s_male THEN 1 ELSE 0],
       [name |-> "height_cm",      value |-> height_cm],
       [name |-> "weight_kg",      value |-> weight_kg],
       [name |-> "bmi",            value |-> bmi],
       [name |-> "z_score_weight", value |-> zw],
       [name |-> "z_score_height", value |-> zh] >>

\* Mutant of is_anomaly: the boundary values count as anomalous.
is_anomaly_inclusive(confidence, zw, zh) ==
    \/ confidence <= 60
    \/ (zw # None /\ Abs(zw.v) >= 3 * 10 ^ 6)
    \/ (zh # None /\ Abs(zh.v) >= 3 * 10 ^ 6)

\* Mutant of is_anomaly: the confidence test dropped.
is_anomaly_z_only(confidence, zw, zh) ==
    \/ (zw # None /\ Abs(zw.v) > 3 * 10 ^ 6)
    \/ (zh # None /\ Abs(zh.v) > 3 * 10 ^ 6)

\* confidence < 0.6 or |z_score_weight| > 3 or |z_score_height| > 3
\* (confidence in units of 1/100, z-scores in units of 1/10^6).
is_anomaly(confidence, zw, zh) ==
    \/ confidence < 60
    \/ (zw # None /\ Abs(zw.v) > 3 * 10 ^ 6)
    \/ (zh # None /\ Abs(zh.v) > 3 * 10 ^ 6)

Error(message) == [status |-> "error", message |-> message]

\* A z-score as the Python value the calculator returned.
z_value(out) == IF out.val.kind = "complex" THEN [t |-> "complex"] ELSE Num(out.val.v)

\* x or 0
or_zero(x) == IF x = None \/ x = Num(0) THEN Num(0) ELSE x

\* The "Calculate z-scores if not provided" block: <<z_score_weight, z_score_height>>
\* after it, where rw and rh are what calculate_weight_z_score and
\* calculate_height_z_score answer for the call's measurements.  An exception
\* in either calculation skips the rest of the block and sets every score that
\* is still None to 0.
z_scores_block(rw, rh, height_cm, weight_kg, z_score_weight, z_score_height) ==
    LET need_w == z_score_weight = None /\ weight_kg # None
        need_h == z_score_height = None /\ height_cm # None
    IN  IF need_w /\ ~rw.ok
        THEN <<Num(0), IF z_score_height = None THEN Num(0) ELSE z_score_height>>
        ELSE LET zw == IF need_w THEN z_value(rw) ELSE z_score_weight
             IN  IF need_h /\ ~rh.ok
                 THEN <<IF zw = None THEN Num(0) ELSE zw, Num(0)>>
                 ELSE <<zw, IF need_h THEN z_value(rh) ELSE z_score_height>>

s_unknown == <<"u", "n", "k", "n", "o", "w", "n">>

\* The result dict predict_growth_risk starts from.
result ==
    [status |-> "success", risk_status |-> s_unknown, confidence |-> 0,
     feature_vector |-> None]

\* d.update(u)
update(d, u) ==
    [k \in (DOMAIN d) \cup (DOMAIN u) |-> IF k \in DOMAIN u THEN u[k] ELSE d[k]]

\* Mutant of verdict_block: the label is always the one at the argmax.
verdict_block_argmax(le_classes, y_pred, y_proba, zw, zh, fv) ==
    LET confidence == np_max(y_proba)
        idx == np_argmax(y_proba)
    IN  IF Len(le_classes) = 0 \/ idx >= Len(le_classes)
        THEN Error("name 'traceback' is not defined")
        ELSE update(result,
                    [status         |-> "success",
                     risk_status    |-> normalize_label(le_classes[idx + 1]),
                     confidence     |-> confidence,
                     is_anomaly     |-> is_anomaly(confidence, zw, zh),
                     feature_vector |-> fv])

\* Mutant of verdict_block: a failure inside the block returns the result
\* dict as it stood.
verdict_block_partial(le_classes, y_pred, y_proba, zw, zh, fv) ==
    LET confidence == np_max(y_proba)
        idx == IF y_pred < 0 \/ y_pred >= Len(le_classes) THEN np_argmax(y_proba) ELSE y_pred
    IN  IF Len(le_classes) = 0 \/ idx >= Len(le_classes)
        THEN result
        ELSE update(result,
                    [status         |-> "success",
                     risk_status    |-> normalize_label(le_classes[idx + 1]),
                     confidence     |-> confidence,
                     is_anomaly     |-> is_anomaly(confidence, zw, zh),
                     feature_vector |-> fv])

\* The "Get risk status and confidence" block for a model fitted on
\* model_classes, the loaded encoder classes le_classes, the classifier's
\* answer y_pred (a class index) and y_proba (percentages), and the scores.
verdict_block(le_classes, y_pred, y_proba, zw, zh, fv) ==
    LET confidence == np_max(y_proba)
        idx == IF y_pred < 0 \/ y_pred >= Len(le_classes) THEN np_argmax(y_proba) ELSE y_pred
    IN  IF Len(le_classes) = 0 \/ idx >= Len(le_classes)
        \* RuntimeError / IndexError; the handler then fails on the missing
        \* `traceback` import and the outer handler reports the NameError.
        THEN Error("name 'traceback' is not defined")
        ELSE update(result,
                    [status         |-> "success",
                     risk_status    |-> normalize_label(le_classes[idx + 1]),
                     confidence     |-> confidence,
                     is_anomaly     |-> is_anomaly(confidence, zw, zh),
                     feature_vector |-> fv])

\* The "Calculate BMI and prepare feature vector" block and what follows it,
\* for the scores zw and zh the call goes on with.
features_block(a, age, gender, zw, zh, le_classes, y_pred, y_proba) ==
    LET height_m2 == MulDiv(a.height_cm.v, a.height_cm.v, 10 ^ 6)
    IN  IF height_m2 = 0 \/ zw.t # "num" \/ zh.t # "num"
        \* ZeroDivisionError, or float() of a complex score
        THEN Error("Error preparing features")
        ELSE verdict_block(le_classes, y_pred, y_proba, zw, zh,
                           feature_vector(age, gender, a.height_cm.v, a.weight_kg.v,
                                          MulDiv(a.weight_kg.v, 10 ^ 6, height_m2),
                                          zw.v, zh.v))

\* The "Ensure we have the required values" and "Load model and encoder"
\* blocks and what follows them, for the scores zs the z-score block left.
required_values_block(a, age, gender, zs, model, f, y_pred, y_proba) ==
    IF a.height_cm = None \/ a.weight_kg = None
    THEN Error("Both height_cm and weight_kg are required for prediction")
    ELSE IF ~model.ok \/ ~f.encoder.exists
    THEN Error("Failed to load model or encoder")
    ELSE features_block(a, age, gender,
             IF zs[1] = None \/ zs[2] = None THEN or_zero(zs[1]) ELSE zs[1],
             IF zs[1] = None \/ zs[2] = None THEN or_zero(zs[2]) ELSE zs[2],
             f.encoder.classes, y_pred, y_proba)

\* The body of predict_growth_risk once age_months and gender are converted.
validated_call(a, age, gender, train, classes, enc, mdl, y_pred, y_proba) ==
    IF gender \notin {s_male, s_female}
    THEN Error("Gender must be 'male' or 'female'")
    ELSE IF age < 0 \/ age > 60
    THEN Error("Age must be between 0 and 60 months")
    ELSE required_values_block(a, age, gender,
             z_scores_block(
                 IF a.weight_kg = None THEN Idle
                 ELSE calculate_weight_z_score(a.weight_kg.v, age * U, Str(gender)),
                 IF a.height_cm = None THEN Idle
                 ELSE calculate_height_z_score(a.height_cm.v, age * U, Str(gender)),
                 a.height_cm, a.weight_kg, a.z_score_weight, a.z_score_height),
             get_growth_risk_model(train, classes, enc, mdl),
             files_after_training(train, classes, enc, mdl),
             y_pred, y_proba)

\* predict_growth_risk(age_months, gender, height_cm, weight_kg,
\*                     z_score_weight, z_score_height)
\* in the environment (train, classes: this call's training run; enc, mdl: the
\* files found on disk; y_pred, y_proba: what the classifier answers).
predict_growth_risk(a, train, classes, enc, mdl, y_pred, y_proba) ==
    validated_call(a, PyInt(a.age_months), lower(py_str(a.gender)),
                   train, classes, enc, mdl, y_pred, y_proba)

\* The call passes the input validation and the required-values check, so it
\* gets to get_growth_risk_model().
reaches_model_load(a) ==
    /\ lower(py_str(a.gender)) \in {s_male, s_female}
    /\ PyInt(a.age_months) >= 0
    /\ PyInt(a.age_months) <= 60
    /\ a.height_cm # None
    /\ a.weight_kg # None

---------------------------------------------------------------------------
(* Inputs of predict_growth_risk *)

RiskAgeInputs == {6 * U, 12 * U, 61 * U}

RiskGenderInputs == {Str(s_male), Str(<<"F", "e", "m", "a", "l", "e">>), None}

\* None, 0 and 75.5 cm
HeightInputs == {None, Num(0), Num(755000)}

\* None, -5, 0, 5 and 9.8 kg
WeightInputs == {None, Num(-50000), Num(0), Num(50000), Num(98000)}

\* None, 3.0 and -3.5
ZWeightInputs == {None, Num(3000000), Num(-3500000)}

\* None and 3.2
ZHeightInputs == {None, Num(3200000)}

RiskRequests ==
    [op : {"predict_growth_risk"}, age_months : RiskAgeInputs,
     gender : RiskGenderInputs, height_cm : HeightInputs, weight_kg : WeightInputs,
     z_score_weight : ZWeightInputs, z_score_height : ZHeightInputs]

\* Label vocabularies (le_status.classes_, sorted) of the training data.
Vocabularies ==
    {<<s_normal, s_overweight, s_severely_ \o s_stunted, s_underweight>>,
     <<s_normal, s_severely_underweight>>}

TrainOutcomes == {"ok", "data_error", "fit_error"}

\* Classifier confidences, in percent.
ConfidenceInputs == {50, 59, 60, 95}

\* y_proba with `c` percent on class `peak` and the rest on the next class.
proba(n, peak, c) ==
    [i \in 1..n |-> IF i = peak THEN c ELSE IF i = (peak % n) + 1 THEN 100 - c ELSE 0]

\* The files earlier calls can have left: none; an encoder alone (its run
\* failed while fitting); an encoder and a model of the same or of different runs.
DiskStates ==
    {<<NoFile, NoFile>>}
    \cup {<<File(e), NoFile>> : e \in Vocabularies}
    \cup {<<File(e), File(m)>> : e \in Vocabularies, m \in Vocabularies}

Init ==
    /\ req \in RiskRequests
    /\ lms_call = Idle
    /\ lms_again = Idle
    /\ z_call = Idle
    /\ norm_call = Idle
    /\ norm_again = Idle
    /\ \E d \in DiskStates : encoder_file = d[1] /\ model_file = d[2]
    /\ risk_call = Idle
    /\ clf_call = Idle
    /\ who_standards = <<>>
    /\ status_call = Idle
    /\ proj_call = Idle
    /\ babies = {}
    /\ growth_records = <<>>
    /\ api_call = Idle

\* The client's predict_growth_risk call runs: it retrains, which rewrites the
\* files, and the classifier it obtained answers y_pred and y_proba.
PredictGrowthRisk ==
    /\ req.op = "predict_growth_risk"
    /\ risk_call = Idle
    /\ \E train \in TrainOutcomes, classes \in Vocabularies :
          LET f     == files_after_training(train, classes, encoder_file, model_file)
              model == get_growth_risk_model(train, classes, encoder_file, model_file)
              n     == IF model.ok THEN Len(model.val) ELSE 2
          IN  \E y_pred \in 0..(n - 1), peak \in 1..n, c \in ConfidenceInputs :
                 /\ risk_call' = [op  |-> req.op,
                                  out |-> predict_growth_risk(req, train, classes,
                                              encoder_file, model_file,
                                              y_pred, proba(n, peak, c))]
                 \* model.predict ran exactly in the calls that end in a
                 \* verdict or in a failure of the verdict block
                 /\ clf_call' =
                       IF \/ risk_call'.out.status = "success"
                          \/ risk_call'.out.message = "name 'traceback' is not defined"
                       THEN [op            |-> "predict",
                             model_classes |-> model.val,
                             le_classes    |-> f.encoder.classes,
                             y_pred        |-> y_pred,
                             y_proba       |-> proba(n, peak, c)]
                       ELSE Idle
                 \* get_growth_risk_model ran unless the call was refused
                 \* before the "Load model and encoder" block
                 /\ encoder_file' = IF reaches_model_load(req) THEN f.encoder
                                    ELSE encoder_file
                 /\ model_file' = IF reaches_model_load(req) THEN f.model
                                  ELSE model_file
    /\ UNCHANGED <<req, lms_vars, norm_vars, proj_vars, api_vars>>

Next == PredictGrowthRisk

Spec == Init /\ [][Next]_vars

\* round(x, 2) of a float held in units whose second decimal is `step`:
\* the nearest multiple of step, an exact tie going to the even multiple.
round_to(v, step) ==
    LET q == v \div step
        r == v % step
    IN  IF 2 * r < step THEN q * step
        ELSE IF 2 * r > step THEN (q + 1) * step
        ELSE IF q % 2 = 0 THEN q * step ELSE (q + 1) * step

---------------------------------------------------------------------------
(* Properties of predict_growth_risk *)

RiskSuccess ==
    /\ req.op = "predict_growth_risk"
    /\ risk_call # Idle
    /\ risk_call.out.status = "success"

FieldNames(fv) == [i \in 1..Len(fv) |-> fv[i].name]

\* C1: on every successful call the feature vector handed to the classifier
\* has exactly seven fields, named and ordered age_months, gender_encoded,
\* height_cm, weight_kg, bmi, z_score_weight, z_score_height, which is the
\* column order prepare_features gives the training matrix.
C1_FeatureSchema ==
    RiskSuccess =>
        /\ Len(risk_call.out.feature_vector) = 7
        /\ FieldNames(risk_call.out.feature_vector) =
              <<"age_months", "gender_encoded", "height_cm", "weight_kg", "bmi",
                "z_score_weight", "z_score_height">>
        /\ FieldNames(risk_call.out.feature_vector) = features

\* C1 witness: a successful call for a 12-month-old male of 75.5 cm and 9.8 kg
\* whose feature vector carries the computed weight score 0.066 in its sixth
\* field and the height score -0.071 in its seventh.
C1_Witness ==
    /\ RiskSuccess
    /\ req.age_months = 12 * U
    /\ req.gender = Str(s_male)
    /\ req.height_cm = Num(755000)
    /\ req.weight_kg = Num(98000)
    /\ req.z_score_weight = None
    /\ req.z_score_height = None
    /\ risk_call.out.feature_vector[6].value \in 65500..67500
    /\ risk_call.out.feature_vector[7].value \in -72000..-71000

\* C2: on every successful call is_anomaly is true when confidence < 0.6,
\* whatever the scores, and true when |z_height| > 3 or |z_weight| > 3,
\* whatever the confidence, for the scores placed in the feature vector.
C2_AnomalySufficientConditions ==
    RiskSuccess =>
        LET fv == risk_call.out.feature_vector
        IN  /\ risk_call.out.confidence < 60 => risk_call.out.is_anomaly
            /\ Abs(fv[7].value) > 3 * 10 ^ 6 => risk_call.out.is_anomaly
            /\ Abs(fv[6].value) > 3 * 10 ^ 6 => risk_call.out.is_anomaly

\* C2 witness: a successful call with confidence 0.59 and both scores within
\* 3 in magnitude was flagged as an anomaly.
C2_Witness ==
    /\ RiskSuccess
    /\ risk_call.out.confidence = 59
    /\ Abs(risk_call.out.feature_vector[6].value) <= 3 * 10 ^ 6
    /\ Abs(risk_call.out.feature_vector[7].value) <= 3 * 10 ^ 6
    /\ risk_call.out.is_anomaly

\* A second case of C2: a successful call with confidence 0.95 and a weight
\* score below -3 (5 kg at 12 months, male) was flagged as an anomaly.
C2_WitnessExtremeScore ==
    /\ RiskSuccess
    /\ risk_call.out.confidence = 95
    /\ req.weight_kg = Num(50000)
    /\ req.z_score_weight = None
    /\ risk_call.out.feature_vector[6].value < -3 * 10 ^ 6
    /\ risk_call.out.is_anomaly

RiskDone == req.op = "predict_growth_risk" /\ risk_call # Idle

\* C11: every predict_growth_risk call returns either an error outcome or a
\* complete verdict: status success with risk_status one of normal,
\* underweight, stunted, overweight, and confidence and is_anomaly present.
C11_NeverPartialSuccess ==
    RiskDone =>
        \/ risk_call.out.status = "error"
        \/ /\ risk_call.out.status = "success"
           /\ {"risk_status", "confidence", "is_anomaly"} \subseteq DOMAIN risk_call.out
           /\ risk_call.out.risk_status \in RiskCategories

\* C11 witness: the verdict block failed after the classifier had answered
\* (the encoder on disk has fewer classes than the model) and the call
\* returned an error outcome.
C11_Witness ==
    /\ RiskDone
    /\ req.height_cm = Num(755000)
    /\ req.weight_kg = Num(98000)
    /\ risk_call.out = Error("name 'traceback' is not defined")

\* The call's age and gender after conversion, and what the calculator
\* answers for the call's measurements.
ReqAge == PyInt(req.age_months)

ReqGender == lower(py_str(req.gender))

ReqWeightScore == calculate_weight_z_score(req.weight_kg.v, ReqAge * U, Str(ReqGender))

ReqHeightScore == calculate_height_z_score(req.height_cm.v, ReqAge * U, Str(ReqGender))

WeightUncomputable == req.weight_kg # None /\ ~ReqWeightScore.ok

HeightUncomputable == req.height_cm # None /\ ~ReqHeightScore.ok

\* A condition the specification classes as DomainError or IncompleteInputError.
InputErrorCondition ==
    \/ ReqGender \notin {s_male, s_female}
    \/ ReqAge < 0 \/ ReqAge > 60
    \/ WeightUncomputable
    \/ HeightUncomputable
    \/ req.weight_kg = None /\ req.z_score_weight = None
    \/ req.height_cm = None /\ req.z_score_height = None

\* C12: no call in which a domain or incomplete-input condition occurs (such
\* as a supplied measurement whose score cannot be computed) returns a
\* successful verdict.
C12_ErrorsNeverSuccessful ==
    (RiskDone /\ InputErrorCondition) => risk_call.out.status = "error"

\* C13: no default is substituted for a required score: on every successful
\* call each axis' score was either supplied or successfully computed.
C13_NoDefaultScore ==
    RiskSuccess =>
        /\ req.z_score_weight # None \/ (req.weight_kg # None /\ ReqWeightScore.ok)
        /\ req.z_score_height # None \/ (req.height_cm # None /\ ReqHeightScore.ok)

\* C14: a call that supplies a valid age and sex and both scores, with no
\* height_cm and no weight_kg, is not rejected as incomplete.
C14_SuppliedScoresAccepted ==
    ( /\ RiskDone
      /\ ReqGender \in {s_male, s_female}
      /\ ReqAge >= 0 /\ ReqAge <= 60
      /\ req.height_cm = None /\ req.weight_kg = None
      /\ req.z_score_weight # None /\ req.z_score_height # None
      /\ risk_call.out.status = "error" )
    => risk_call.out.message # "Both height_cm and weight_kg are required for prediction"

\* C15: on every successful call, for each axis whose measurement is present
\* and whose score the calculator can compute, the score in the feature
\* vector is the computed one.
C15_PresentMeasurementScoreComputed ==
    RiskSuccess =>
        /\ (ReqWeightScore.ok /\ ReqWeightScore.val.kind = "float")
              => risk_call.out.feature_vector[6].value = ReqWeightScore.val.v
        /\ (ReqHeightScore.ok /\ ReqHeightScore.val.kind = "float")
              => risk_call.out.feature_vector[7].value = ReqHeightScore.val.v

\* The largest entry of the distribution the classifier answered, and the
\* 0-based position of its first occurrence.
AnsweredMax ==
    CHOOSE m \in {clf_call.y_proba[i] : i \in DOMAIN clf_call.y_proba} :
        \A i \in DOMAIN clf_call.y_proba : clf_call.y_proba[i] <= m

AnsweredArgmax ==
    (CHOOSE i \in DOMAIN clf_call.y_proba :
        /\ clf_call.y_proba[i] = AnsweredMax
        /\ \A j \in 1..(i - 1) : clf_call.y_proba[j] < AnsweredMax) - 1

PredictedInRange == clf_call.y_pred >= 0 /\ clf_call.y_pred < Len(clf_call.le_classes)

\* C27: on every successful call the verdict's label is the vocabulary entry
\* at the argmax of the distribution when the predicted index is outside the
\* vocabulary, and the entry at the predicted index when it is inside, also
\* when that differs from the argmax (the entry then being mapped to its
\* risk category).
C27_FallbackToArgmax ==
    RiskSuccess =>
        risk_call.out.risk_status =
            normalize_label(clf_call.le_classes[
                (IF PredictedInRange THEN clf_call.y_pred ELSE AnsweredArgmax) + 1])

\* C27 witness: the model answered index 3 with most probability on index 1,
\* the encoder on disk has two classes, and the verdict carries the mapped
\* label of the encoder's entry 1.
C27_Witness ==
    /\ RiskSuccess
    /\ clf_call.y_pred = 3
    /\ Len(clf_call.le_classes) = 2
    /\ AnsweredArgmax = 1
    /\ risk_call.out.risk_status = normalize_label(clf_call.le_classes[2])
    /\ risk_call.out.risk_status # normalize_label(clf_call.le_classes[1])

\* C28: the confidence of every successful verdict is the largest entry of
\* the distribution the classifier answered, it lies in [0, 1], and it is the
\* value the anomaly rule compares with 0.6, also when the label came from a
\* predicted index that is not the argmax.
C28_ConfidenceIsMaxProbability ==
    RiskSuccess =>
        /\ risk_call.out.confidence = AnsweredMax
        /\ risk_call.out.confidence \in 0..100
        /\ AnsweredMax < 60 => risk_call.out.is_anomaly
        /\ ( /\ Abs(risk_call.out.feature_vector[6].value) <= 3 * 10 ^ 6
             /\ Abs(risk_call.out.feature_vector[7].value) <= 3 * 10 ^ 6 )
              => (risk_call.out.is_anomaly <=> AnsweredMax < 60)

\* C28 witness: the predicted index 0 holds probability 0.05, the argmax is
\* index 3 with 0.95, and the verdict's confidence is 0.95 with no anomaly.
C28_Witness ==
    /\ RiskSuccess
    /\ clf_call.y_pred = 0
    /\ clf_call.y_proba = <<5, 0, 0, 95>>
    /\ PredictedInRange
    /\ risk_call.out.confidence = 95
    /\ ~risk_call.out.is_anomaly

\* C29: on every successful call is_anomaly is true if and only if
\* confidence < 0.6 or |z_weight| > 3 or |z_height| > 3 for the scores of the
\* feature vector; confidence 0.6 and a score of magnitude 3 are not anomalous.
C29_AnomalyExactly ==
    RiskSuccess =>
        (risk_call.out.is_anomaly <=>
            \/ risk_call.out.confidence < 60
            \/ Abs(risk_call.out.feature_vector[6].value) > 3 * 10 ^ 6
            \/ Abs(risk_call.out.feature_vector[7].value) > 3 * 10 ^ 6)

\* C29 witness: confidence exactly 0.6, a supplied weight score of exactly 3.0
\* and a computed height score near 0: no anomaly.
C29_Witness ==
    /\ RiskSuccess
    /\ risk_call.out.confidence = 60
    /\ risk_call.out.feature_vector[6].value = 3 * 10 ^ 6
    /\ Abs(risk_call.out.feature_vector[7].value) < 3 * 10 ^ 6
    /\ ~risk_call.out.is_anomaly

\* The worked example's height call: 75.5 cm at 12 months, male.
ExampleHeightDone ==
    /\ HeightWrapperDone
    /\ req.value = 755000
    /\ req.age_months = 12 * U
    /\ req.gender = Str(s_male)

\* The worked example's weight call: 9.8 kg at 12 months, male.
ExampleWeightDone ==
    /\ WeightWrapperDone
    /\ req.value = 98000
    /\ req.age_months = 12 * U
    /\ req.gender = Str(s_male)

\* The example's measurements do not meet the |z| > 3 anomaly condition.
ExampleNotExtreme ==
    /\ ExampleHeightDone =>
          (z_call.out.ok /\ z_call.out.val.kind = "float"
              /\ Abs(z_call.out.val.v) <= 3 * 10 ^ 6)
    /\ ExampleWeightDone =>
          (z_call.out.ok /\ z_call.out.val.kind = "float"
              /\ Abs(z_call.out.val.v) <= 3 * 10 ^ 6)

\* C25 as stated: for 75.5 cm at 12 months, male, against (1, 75.6709,
\* 0.03164), calculate_height_z_score returns a score that is -0.064 to three
\* decimals, and neither that score nor the score of 9.8 kg exceeds 3 in
\* magnitude.
C25_WorkedExampleAsStated ==
    /\ ExampleHeightDone =>
          (z_call.out.ok /\ z_call.out.val.kind = "float"
              /\ round_to(z_call.out.val.v, 1000) = -64000)
    /\ ExampleNotExtreme

\* C25 amended: for 75.5 cm at 12 months, male, the band-12 entry is
\* (1, 75.6709, 0.03164) and calculate_height_z_score returns
\* (75.5 / 75.6709 - 1) / 0.03164, which is -0.071 to three decimals; neither
\* that score nor the score of 9.8 kg exceeds 3 in magnitude.
C25_WorkedExample ==
    /\ ExampleHeightDone =>
          (/\ HEIGHT_LMS[s_male][12] = <<10000, 756709, 3164>>
           /\ z_call.out.ok /\ z_call.out.val.kind = "float"
           /\ round_to(z_call.out.val.v, 1000) = -71000)
    /\ ExampleNotExtreme

\* C25 witness: the example's height call returned a score between -0.0715
\* and -0.0713.
C25_Witness ==
    /\ ExampleHeightDone
    /\ z_call.out.ok
    /\ z_call.out.val.v \in -71500..-71300

\* C21: a classification call only reads the shared classifier state: it
\* leaves the saved label encoder and the saved model as it found them.
C21_CallsOnlyRead ==
    [][(clf_call = Idle /\ clf_call' # Idle)
          => (encoder_file' = encoder_file /\ model_file' = model_file)]_vars

\* C22: the classifier that answers and the label encoder that decodes its
\* answer come from the same training run, also when training failed and the
\* saved model was loaded.
C22_ClassifierPairedWithVocabulary ==
    clf_call # Idle => clf_call.le_classes = clf_call.model_classes

---------------------------------------------------------------------------
(* ml_models/predict_growth.py: get_status and GrowthPredictor *)

\* Mutant of get_status: the boundary scores -2 and 2 fall outside normal.
get_status_strict(z_score) ==
    IF Abs(z_score) < 2 * 10 ^ 6 THEN "normal"
    ELSE IF z_score < -2 * 10 ^ 6 THEN "low"
    ELSE "high"

\* get_status(z_score), z_score in units of 1/10^6.
get_status(z_score) ==
    IF Abs(z_score) <= 2 * 10 ^ 6 THEN "normal"
    ELSE IF z_score < -2 * 10 ^ 6 THEN "low"
    ELSE "high"

\* GrowthPredictor.prepare_features: the regressor's input row; gender.lower()
\* raises AttributeError for a gender that is not a string.
prepare_features(age_months, gender, height_cm, weight_kg) ==
    IF gender.t # "str" THEN Raise("AttributeError")
    ELSE Ok(<<age_months, IF lower(gender.s) = s_male THEN 1 ELSE 0, height_cm, weight_kg>>)

\* A row of the growth data file (lengths and weights in units of 1/10^4).
Row(age, gender_code, height, height_sd, weight, weight_sd) ==
    [AgeMonths |-> age, Gender |-> gender_code, Height_cm |-> height,
     Height_SD |-> height_sd, Weight_kg |-> weight, Weight_SD |-> weight_sd]

Max(a, b) == IF a >= b THEN a ELSE b

\* The result dict get_who_standards builds from the row it selected;
\* max(sd, 0.1) keeps the divisor away from zero.
who_std(row) ==
    [height_mean |-> row.Height_cm, height_sd |-> Max(row.Height_SD, 1000),
     weight_mean |-> row.Weight_kg, weight_sd |-> Max(row.Weight_SD, 1000)]

\* GrowthPredictor.get_who_standards(age_months, gender): the outcomes the call
\* can have on the rows `rows`.  An exact match on age and gender code takes
\* the first matching row; otherwise the row of that gender code closest in
\* age is taken, and among rows equally close the unstable argsort may put
\* any of them first; with no row of the gender code the call raises.
get_who_standards(rows, age_months, gender) ==
    LET gender_code == IF lower(gender) = s_male THEN "M" ELSE "F"
        all     == {i \in 1..Len(rows) : rows[i].Gender = gender_code}
        exact   == {i \in all : rows[i].AgeMonths = age_months}
        closest == {i \in all : \A j \in all :
                       Abs(rows[i].AgeMonths - age_months)
                           <= Abs(rows[j].AgeMonths - age_months)}
    IN  IF exact # {} THEN {Ok(who_std(rows[SetMin(exact)]))}
        ELSE IF closest # {} THEN {Ok(who_std(rows[i])) : i \in closest}
        ELSE {Raise("ValueError")}

\* The current_data entry of a projection.
current_data(a) ==
    [age_months |-> a.age_months, height_cm |-> a.height_cm, weight_kg |-> a.weight_kg]

\* Mutant of predict: a failure to obtain the standards fails the whole call.
predict_failing(a, predicted_height, predicted_weight, std) ==
    IF ~std.ok THEN Raise(std.exc)
    ELSE Ok([predicted_height |-> Num(round_to(predicted_height, 100)),
             predicted_weight |-> Num(round_to(predicted_weight, 100)),
             height_z_score   |-> None,
             weight_z_score   |-> None,
             height_status    |-> "unknown",
             weight_status    |-> "unknown",
             next_month_age   |-> a.age_months + U,
             current_data     |-> current_data(a)])

\* GrowthPredictor.predict after prepare_features succeeded, for the
\* regressor's answer (predicted_height, predicted_weight) and the outcome
\* std of get_who_standards(next_month, gender).  z-scores in units of 1/10^6.
predict(a, predicted_height, predicted_weight, std) ==
    IF ~std.ok
    THEN Ok([predicted_height |-> Num(round_to(predicted_height, 100)),
             predicted_weight |-> Num(round_to(predicted_weight, 100)),
             height_z_score   |-> None,
             weight_z_score   |-> None,
             height_status    |-> "unknown",
             weight_status    |-> "unknown",
             next_month_age   |-> a.age_months + U,
             current_data     |-> current_data(a),
             error            |-> std.exc])
    ELSE Ok([predicted_height |-> Num(round_to(predicted_height, 100)),
             predicted_weight |-> Num(round_to(predicted_weight, 100)),
             height_z_score   |->
                 Num(round_to(MulDiv(predicted_height - std.val.height_mean,
                                     10 ^ 6, std.val.height_sd), 10 ^ 4)),
             weight_z_score   |->
                 Num(round_to(MulDiv(predicted_weight - std.val.weight_mean,
                                     10 ^ 6, std.val.weight_sd), 10 ^ 4)),
             height_status    |->
                 get_status(MulDiv(predicted_height - std.val.height_mean,
                                   10 ^ 6, std.val.height_sd)),
             weight_status    |->
                 get_status(MulDiv(predicted_weight - std.val.weight_mean,
                                   10 ^ 6, std.val.weight_sd)),
             next_month_age   |-> a.age_months + U,
             current_data     |-> current_data(a)])

\* Mutant of chart_entry: the deviations floored at 0.1 as in the z-scores.
chart_entry_floored(row) ==
    [age_months |-> row.AgeMonths,
     height |-> [p2_3  |-> row.Height_cm - 2 * Max(row.Height_SD, 1000),
                 p15_9 |-> row.Height_cm - Max(row.Height_SD, 1000),
                 mean  |-> row.Height_cm,
                 p84_1 |-> row.Height_cm + Max(row.Height_SD, 1000),
                 p97_7 |-> row.Height_cm + 2 * Max(row.Height_SD, 1000)],
     weight |-> [p2_3  |-> row.Weight_kg - 2 * Max(row.Weight_SD, 1000),
                 p15_9 |-> row.Weight_kg - Max(row.Weight_SD, 1000),
                 mean  |-> row.Weight_kg,
                 p84_1 |-> row.Weight_kg + Max(row.Weight_SD, 1000),
                 p97_7 |-> row.Weight_kg + 2 * Max(row.Weight_SD, 1000)]]

\* One entry of chart_data: the row's age and, for height and weight, the
\* keys 'p2.3', 'p15.9', 'mean', 'p84.1', 'p97.7' (here p2_3 .. p97_7).
chart_entry(row) ==
    [age_months |-> row.AgeMonths,
     height |-> [p2_3  |-> row.Height_cm - 2 * row.Height_SD,
                 p15_9 |-> row.Height_cm - row.Height_SD,
                 mean  |-> row.Height_cm,
                 p84_1 |-> row.Height_cm + row.Height_SD,
                 p97_7 |-> row.Height_cm + 2 * row.Height_SD],
     weight |-> [p2_3  |-> row.Weight_kg - 2 * row.Weight_SD,
                 p15_9 |-> row.Weight_kg - row.Weight_SD,
                 mean  |-> row.Weight_kg,
                 p84_1 |-> row.Weight_kg + row.Weight_SD,
                 p97_7 |-> row.Weight_kg + 2 * row.Weight_SD]]

\* The rows of a gender code, in file order.
gender_standards(rows, gender) ==
    SelectSeq(rows, LAMBDA row :
                  row.Gender = (IF lower(gender) = s_male THEN "M" ELSE "F"))

\* result['chart_data'] of get_who_standards(..., include_chart_data=True):
\* one entry for every row of the gender code, in file order.
chart_data(rows, gender) ==
    [i \in 1..Len(gender_standards(rows, gender)) |->
        chart_entry(gender_standards(rows, gender)[i])]

\* GrowthPredictor.predict with include_chart_data: when the chart was
\* requested and the lookup succeeded, the projection also carries
\* chart_data, current_point and predicted_point.
predict_with_chart(a, rows, predicted_height, predicted_weight, std) ==
    IF a.include_chart_data /\ std.ok
    THEN Ok(update(predict(a, predicted_height, predicted_weight, std).val,
                   [chart_data      |-> chart_data(rows, a.gender.s),
                    current_point   |-> current_data(a),
                    predicted_point |->
                        [age_months |-> a.age_months + U,
                         height_cm  |-> Num(round_to(predicted_height, 100)),
                         weight_kg  |-> Num(round_to(predicted_weight, 100))]]))
    ELSE predict(a, predicted_height, predicted_weight, std)

---------------------------------------------------------------------------
(* Inputs of get_status and GrowthPredictor.predict *)

\* Scores on both sides of -2 and 2, and the boundaries themselves.
StatusInputs ==
    {-3000000, -2000001, -2000000, -1999999, -1, 0, 1, 1999999, 2000000,
     2000001, 2004000, 3000000}

StatusRequests == [op : {"get_status"}, z_score : StatusInputs]

\* Current ages -2, 0, 12, 59, 60 and 61 months.
ProjAgeInputs == {-2 * U, 0, 12 * U, 59 * U, 60 * U, 61 * U}

ProjGenderInputs ==
    {Str(s_male), Str(<<"F", "e", "m", "a", "l", "e">>),
     Str(<<"o", "t", "h", "e", "r">>), None}

ProjRequests ==
    [op : {"predict"}, age_months : ProjAgeInputs, gender : ProjGenderInputs,
     height_cm : {755000}, weight_kg : {98000}, include_chart_data : BOOLEAN]

\* Rows as generate_growth_data writes them (several samples per month and
\* gender code, Height_SD = 0.04 and Weight_SD = 0.15 of the month's median,
\* heights and Height_SD to one decimal, weights and Weight_SD to two),
\* here the months 0, 13 and 60.
MaleRows ==
    << Row(0,      "M", 503000,  20000,  34000,  5000),
       Row(13 * U, "M", 619000,  25000,  64700,  9700),
       Row(13 * U, "M", 612000,  25000,  71000,  9700),
       Row(60 * U, "M", 1004000, 40000, 165000, 24800),
       Row(60 * U, "M", 1011000, 40000, 158000, 24800) >>

FemaleRows ==
    << Row(0,      "F", 488000,  20000,  31000,  4800),
       Row(13 * U, "F", 602000,  24000,  61200,  9200),
       Row(60 * U, "F", 980000,  39000, 155600, 23300) >>

\* A file whose deviations are all zero.
FlatRows ==
    << Row(13 * U, "M", 619000, 0, 64700, 0),
       Row(13 * U, "F", 602000, 0, 61200, 0) >>

\* The files GrowthPredictor can have loaded: both gender codes, male rows
\* only, zero deviations, and no rows at all.
DataFiles == {MaleRows \o FemaleRows, MaleRows, FlatRows, <<>>}

\* What the regressor answers.
PredictedHeights == {568900, 619000, 669000, 669049, 669100, 1100000}

PredictedWeights == {45200, 64700, 84100, 84200}

InitProj ==
    /\ req \in StatusRequests \cup ProjRequests
    /\ lms_call = Idle
    /\ lms_again = Idle
    /\ z_call = Idle
    /\ norm_call = Idle
    /\ norm_again = Idle
    /\ encoder_file = NoFile
    /\ model_file = NoFile
    /\ risk_call = Idle
    /\ clf_call = Idle
    /\ who_standards \in DataFiles
    /\ status_call = Idle
    /\ proj_call = Idle
    /\ babies = {}
    /\ growth_records = <<>>
    /\ api_call = Idle

GetStatus ==
    /\ req.op = "get_status"
    /\ status_call = Idle
    /\ status_call' = [op |-> req.op, out |-> get_status(req.z_score)]
    /\ UNCHANGED <<req, lms_vars, norm_vars, risk_vars, who_standards, proj_call, api_vars>>

\* predictor.predict(age_months, gender, height_cm, weight_kg): the features
\* are prepared, the regressor answers, the standards of the next month are
\* looked up and the projection is returned.  The record keeps the features,
\* the regressor's answer and the lookup's outcome next to the result.
Predict ==
    /\ req.op = "predict"
    /\ proj_call = Idle
    /\ \E ph \in PredictedHeights, pw \in PredictedWeights :
          IF ~prepare_features(req.age_months, req.gender, req.height_cm, req.weight_kg).ok
          THEN proj_call' =
                  [op  |-> req.op,
                   out |-> prepare_features(req.age_months, req.gender,
                                            req.height_cm, req.weight_kg)]
          ELSE \E std \in get_who_standards(who_standards, req.age_months + U, req.gender.s) :
                  proj_call' =
                     [op        |-> req.op,
                      X         |-> prepare_features(req.age_months, req.gender,
                                                     req.height_cm, req.weight_kg).val,
                      predicted |-> <<ph, pw>>,
                      who_std   |-> std,
                      out       |-> predict_with_chart(req, who_standards, ph, pw, std)]
    /\ UNCHANGED <<req, lms_vars, norm_vars, risk_vars, who_standards, status_call,
                   api_vars>>

NextProj == GetStatus \/ Predict

SpecProj == InitProj /\ [][NextProj]_vars

---------------------------------------------------------------------------
(* Properties of get_status and GrowthPredictor.predict *)

StatusDone == req.op = "get_status" /\ status_call # Idle

ProjDone == req.op = "predict" /\ proj_call # Idle

\* The call got as far as looking up the standards of the next month.
ProjLookedUp == ProjDone /\ "who_std" \in DOMAIN proj_call

\* The call returned a projection with scores.
ProjScored == ProjLookedUp /\ proj_call.who_std.ok /\ proj_call.out.ok

ProjUnknown ==
    /\ proj_call.out.ok
    /\ proj_call.out.val.height_status = "unknown"
    /\ proj_call.out.val.weight_status = "unknown"
    /\ proj_call.out.val.height_z_score = None
    /\ proj_call.out.val.weight_z_score = None

NextAge == req.age_months + U

\* C16: gender is encoded 1 for male and 0 for female in the classifier's and
\* in the regressor's feature vector, and a call with any other gender fails
\* and encodes nothing.
C16_SexEncoding ==
    /\ RiskDone =>
          IF ReqGender \in {s_male, s_female}
          THEN risk_call.out.status = "success" =>
                  risk_call.out.feature_vector[2].value
                      = (IF ReqGender = s_male THEN 1 ELSE 0)
          ELSE risk_call.out.status = "error"
    /\ ProjDone =>
          IF req.gender.t = "str" /\ lower(req.gender.s) \in {s_male, s_female}
          THEN ProjLookedUp =>
                  proj_call.X[2] = (IF lower(req.gender.s) = s_male THEN 1 ELSE 0)
          ELSE ~proj_call.out.ok

\* The next age lies outside the ages the loaded file covers.
NextAgeOutsideData ==
    \/ \A i \in 1..Len(who_standards) : who_standards[i].AgeMonths < NextAge
    \/ \A i \in 1..Len(who_standards) : who_standards[i].AgeMonths > NextAge

\* C17: a predict call whose next age lies outside the ages the reference
\* data covers returns a projection with both statuses unknown and both
\* scores None, and does not raise.
C17_NextAgeOutOfRangeUnknown ==
    (ProjDone /\ req.gender.t = "str" /\ NextAgeOutsideData) => ProjUnknown

LmsHeightScore == calculate_height_z_score(proj_call.predicted[1], NextAge, req.gender)

LmsWeightScore == calculate_weight_z_score(proj_call.predicted[2], NextAge, req.gender)

\* C18: the scores a projection reports for the predicted height and weight
\* are the ZScoreCalculator's scores of the predicted values at the next age.
C18_ProjectionScoresAreLms ==
    ProjScored =>
        /\ (LmsHeightScore.ok /\ LmsHeightScore.val.kind = "float") =>
              proj_call.out.val.height_z_score
                  = Num(round_to(LmsHeightScore.val.v, 10 ^ 4))
        /\ (LmsWeightScore.ok /\ LmsWeightScore.val.kind = "float") =>
              proj_call.out.val.weight_z_score
                  = Num(round_to(LmsWeightScore.val.v, 10 ^ 4))

\* The status the thresholds -2 and 2 give a score.
ThresholdStatus(z) ==
    IF z < -2 * 10 ^ 6 THEN "low" ELSE IF z > 2 * 10 ^ 6 THEN "high" ELSE "normal"

\* The projection's scores before rounding.
UnroundedHeightZ ==
    MulDiv(proj_call.predicted[1] - proj_call.who_std.val.height_mean,
           10 ^ 6, proj_call.who_std.val.height_sd)

UnroundedWeightZ ==
    MulDiv(proj_call.predicted[2] - proj_call.who_std.val.weight_mean,
           10 ^ 6, proj_call.who_std.val.weight_sd)

\* C19: get_status(z) is normal exactly when |z| <= 2, low exactly when
\* z < -2 and high exactly when z > 2, -2 and 2 being normal; a projection's
\* height_status and weight_status are this function of its unrounded scores.
C19_StatusThresholds ==
    /\ StatusDone =>
          /\ status_call.out \in {"normal", "low", "high"}
          /\ status_call.out = "normal" <=> Abs(req.z_score) <= 2 * 10 ^ 6
          /\ status_call.out = "low" <=> req.z_score < -2 * 10 ^ 6
          /\ status_call.out = "high" <=> req.z_score > 2 * 10 ^ 6
    /\ ProjScored =>
          /\ proj_call.out.val.height_status = ThresholdStatus(UnroundedHeightZ)
          /\ proj_call.out.val.weight_status = ThresholdStatus(UnroundedWeightZ)

\* C19 witness: a projection whose height score is 2.004 before rounding is
\* reported with score 2.0 and status high, and whose weight score is exactly
\* 2 with status normal.
C19_Witness ==
    /\ ProjScored
    /\ UnroundedHeightZ > 2 * 10 ^ 6
    /\ proj_call.out.val.height_z_score = Num(2 * 10 ^ 6)
    /\ proj_call.out.val.height_status = "high"
    /\ UnroundedWeightZ = 2 * 10 ^ 6
    /\ proj_call.out.val.weight_status = "normal"

\* C20: whenever the lookup of the next month's standards fails, predict
\* still returns the regressor's predicted height and weight and the next
\* age, with both scores None and both statuses unknown.
C20_DegradeIndependently ==
    (ProjLookedUp /\ ~proj_call.who_std.ok) =>
        /\ ProjUnknown
        /\ proj_call.out.val.predicted_height = Num(round_to(proj_call.predicted[1], 100))
        /\ proj_call.out.val.predicted_weight = Num(round_to(proj_call.predicted[2], 100))
        /\ proj_call.out.val.next_month_age = req.age_months + U

\* C20 witness: the file holds male rows only, the call is for a 12-month-old
\* girl, and the projection came back with the predictions and unknown statuses.
C20_Witness ==
    /\ ProjLookedUp
    /\ who_standards = MaleRows
    /\ req.age_months = 12 * U
    /\ lower(req.gender.s) = s_female
    /\ ~proj_call.who_std.ok
    /\ ProjUnknown
    /\ proj_call.out.val.predicted_height = Num(669000)
    /\ proj_call.out.val.next_month_age = 13 * U

\* The projection came back with a chart.
ChartReturned == ProjLookedUp /\ proj_call.out.ok /\ "chart_data" \in DOMAIN proj_call.out.val

\* The rows of the subject's gender code.
SubjectRows ==
    {i \in 1..Len(who_standards) :
        who_standards[i].Gender = (IF lower(req.gender.s) = s_male THEN "M" ELSE "F")}

\* C23: the chart series holds exactly one entry per age of the subject's
\* gender code, in ascending age order, so no age appears twice.
C23_ChartOnePerAge ==
    ChartReturned =>
        LET chart == proj_call.out.val.chart_data
        IN  /\ \A i \in 1..(Len(chart) - 1) : chart[i].age_months < chart[i + 1].age_months
            /\ {chart[i].age_months : i \in 1..Len(chart)}
                  = {who_standards[i].AgeMonths : i \in SubjectRows}

\* The k-th row of the subject's gender code, in file order.
RECURSIVE NthSubjectRow(_, _)
NthSubjectRow(k, from) ==
    IF from \in SubjectRows
    THEN (IF k = 1 THEN who_standards[from] ELSE NthSubjectRow(k - 1, from + 1))
    ELSE NthSubjectRow(k, from + 1)

\* The five values of a chart entry are value + k * SD for k = -2 .. 2.
FiveBands(entry, value, sd) ==
    /\ DOMAIN entry = {"p2_3", "p15_9", "mean", "p84_1", "p97_7"}
    /\ entry.p2_3 = value - 2 * sd
    /\ entry.p15_9 = value - sd
    /\ entry.mean = value
    /\ entry.p84_1 = value + sd
    /\ entry.p97_7 = value + 2 * sd

\* C24: every entry of the chart series holds, for height and for weight, the
\* row's value + k * SD for k = -2, -1, 0, 1, 2 under the five fixed labels;
\* the series is in the projection exactly when the chart was requested and
\* the lookup of the standards succeeded.
C24_ChartBands ==
    /\ (ProjLookedUp /\ proj_call.out.ok) =>
          (ChartReturned <=> (req.include_chart_data /\ proj_call.who_std.ok))
    /\ ChartReturned =>
          LET chart == proj_call.out.val.chart_data
          IN  /\ Len(chart) = Cardinality(SubjectRows)
              /\ \A k \in 1..Len(chart) :
                    /\ FiveBands(chart[k].height, NthSubjectRow(k, 1).Height_cm,
                                 NthSubjectRow(k, 1).Height_SD)
                    /\ FiveBands(chart[k].weight, NthSubjectRow(k, 1).Weight_kg,
                                 NthSubjectRow(k, 1).Weight_SD)

\* C24 witness: a projection for a boy with the chart requested carries five
\* entries, the second one (month 13, 61.9 cm, SD 2.5) spanning 56.9 .. 66.9 cm.
C24_Witness ==
    /\ ChartReturned
    /\ req.include_chart_data
    /\ Len(proj_call.out.val.chart_data) = 5
    /\ proj_call.out.val.chart_data[2].height.p2_3 = 569000
    /\ proj_call.out.val.chart_data[2].height.p97_7 = 669000

---------------------------------------------------------------------------
(* api/views.py: add_growth_record and predict_growth_risk_api *)

\* A key the request's data does not hold.
Absent == [t |-> "absent"]

\* key in data
has(data, key) == data[key] # Absent

\* data.get(key)
get(data, key) == IF data[key] = Absent THEN None ELSE data[key]

\* Response(body, status=status_code)
Response(body, status_code) == [body |-> body, status_code |-> status_code]

\* The view's outcome: its response and the tables as it leaves them.
ViewOutcome(response, baby_rows, record_rows) ==
    [response |-> response, babies |-> baby_rows, growth_records |-> record_rows]

\* The checks both views make before their try block: `required` lists the
\* required keys in order; then a height and a weight, measured or scored.
\* None when every check passes.
validate_fields(data, required) ==
    IF \E i \in 1..Len(required) : ~has(data, required[i])
    THEN Response(Error("Missing required fields"), 400)
    ELSE IF ~has(data, "height_cm") /\ ~has(data, "z_score_height")
    THEN Response(Error("Either height_cm or z_score_height is required"), 400)
    ELSE IF ~has(data, "weight_kg") /\ ~has(data, "z_score_weight")
    THEN Response(Error("Either weight_kg or z_score_weight is required"), 400)
    ELSE None

\* The arguments the views hand to predict_growth_risk.
prediction_arguments(data) ==
    [age_months     |-> data.age_months.v,
     gender         |-> data.gender,
     height_cm      |-> get(data, "height_cm"),
     weight_kg      |-> get(data, "weight_kg"),
     z_score_weight |-> get(data, "z_score_weight"),
     z_score_height |-> get(data, "z_score_height")]

\* The body of a view's response with height_cm / weight_kg added when the
\* request held them.
with_measurements(body, data) ==
    LET h == IF has(data, "height_cm")
             THEN update(body, [height_cm |-> data.height_cm]) ELSE body
    IN  IF has(data, "weight_kg") THEN update(h, [weight_kg |-> data.weight_kg]) ELSE h

\* data after "if 'baby' in data and 'baby_id' not in data: data['baby_id'] = data['baby']"
with_baby_id(data) ==
    IF has(data, "baby") /\ ~has(data, "baby_id")
    THEN [data EXCEPT !.baby_id = data.baby] ELSE data

\* add_growth_record for the request data (baby_id already aliased), the
\* tables as found and the outcome `prediction` of its predict_growth_risk call.
add_growth_record(data, baby_rows, record_rows, prediction) ==
    IF validate_fields(data, <<"baby_id", "age_months", "gender">>) # None
    THEN ViewOutcome(validate_fields(data, <<"baby_id", "age_months", "gender">>),
                     baby_rows, record_rows)
    ELSE IF prediction.status = "error"
    THEN ViewOutcome(Response(Error(prediction.message), 400),
                     baby_rows \cup {data.baby_id.v}, record_rows)
    ELSE IF "z_scores" \notin DOMAIN prediction
    \* prediction['z_scores'] raises KeyError while the arguments of
    \* GrowthRecord.objects.create are evaluated; `except Exception` answers 500
    THEN ViewOutcome(Response(Error("'z_scores'"), 500),
                     baby_rows \cup {data.baby_id.v}, record_rows)
    ELSE ViewOutcome(
             Response(with_measurements(
                          [status      |-> "success",
                           record_id   |-> Len(record_rows) + 1,
                           risk_status |-> prediction.risk_status,
                           confidence  |-> prediction.confidence,
                           is_anomaly  |-> prediction.is_anomaly,
                           z_scores    |-> prediction.z_scores], data), 201),
             baby_rows \cup {data.baby_id.v},
             Append(record_rows,
                    [id             |-> Len(record_rows) + 1,
                     baby           |-> data.baby_id.v,
                     age_months     |-> data.age_months.v,
                     weight_kg      |-> get(data, "weight_kg"),
                     height_cm      |-> get(data, "height_cm"),
                     z_score_weight |-> prediction.z_scores.weight,
                     z_score_height |-> prediction.z_scores.height,
                     classification |-> prediction.risk_status,
                     anomaly        |-> prediction.is_anomaly]))

\* predict_growth_risk_api for the request data and
\* the outcome `prediction` of its predict_growth_risk call: the prediction is
\* returned under status success whatever its own status.
predict_growth_risk_api(data, prediction) ==
    IF validate_fields(data, <<"age_months", "gender">>) # None
    THEN validate_fields(data, <<"age_months", "gender">>)
    ELSE Response(with_measurements([status |-> "success", data |-> prediction], data),
                  200)

---------------------------------------------------------------------------
(* Inputs of the views *)

ApiFieldInputs ==
    [age_months     : {Absent, Num(12 * U), Num(61 * U)},
     gender         : {Absent, Str(s_male), Str(<<"o", "t", "h", "e", "r">>)},
     height_cm      : {Absent, Num(755000), Num(0)},
     weight_kg      : {Absent, Num(98000)},
     z_score_weight : {Absent, Num(3000000)},
     z_score_height : {Absent, Num(3200000)}]

\* The baby given as baby_id, as baby, or not at all.
BabyInputs ==
    {[baby |-> Absent, baby_id |-> Absent], [baby |-> Num(1), baby_id |-> Absent],
     [baby |-> Absent, baby_id |-> Num(1)]}

ApiRequests ==
    {[op |-> "add_growth_record", data |-> update(f, b)] :
        f \in ApiFieldInputs, b \in BabyInputs}
    \cup {[op |-> "predict_growth_risk_api",
            data |-> update(f, [baby |-> Absent, baby_id |-> Absent])] :
               f \in ApiFieldInputs}

\* The data the view works on: add_growth_record first copies baby to baby_id.
view_data(r) == IF r.op = "add_growth_record" THEN with_baby_id(r.data) ELSE r.data

\* The keys the view requires.
required_fields(view) ==
    IF view = "add_growth_record" THEN <<"baby_id", "age_months", "gender">>
    ELSE <<"age_months", "gender">>

\* Files on disk when the view runs: none, or an encoder and a model of one run.
ApiDiskStates == {<<NoFile, NoFile>>} \cup {<<File(v), File(v)>> : v \in Vocabularies}

InitApi ==
    /\ req \in ApiRequests
    /\ lms_call = Idle
    /\ lms_again = Idle
    /\ z_call = Idle
    /\ norm_call = Idle
    /\ norm_again = Idle
    /\ \E d \in ApiDiskStates : encoder_file = d[1] /\ model_file = d[2]
    /\ risk_call = Idle
    /\ clf_call = Idle
    /\ who_standards = <<>>
    /\ status_call = Idle
    /\ proj_call = Idle
    /\ babies \in {{}, {1}}
    /\ growth_records = <<>>
    /\ api_call = Idle

\* A request that fails the view's field checks is answered at once.
RejectRequest ==
    /\ req.op \in {"add_growth_record", "predict_growth_risk_api"}
    /\ api_call = Idle
    /\ validate_fields(view_data(req), required_fields(req.op)) # None
    /\ api_call' = [op       |-> req.op,
                    response |-> validate_fields(view_data(req), required_fields(req.op))]
    /\ UNCHANGED <<req, lms_vars, norm_vars, risk_vars, proj_vars, babies, growth_records>>

\* A request that passes the checks: the view calls predict_growth_risk, which
\* retrains and rewrites the files, and answers from its outcome.
ServeRequest(view) ==
    /\ req.op = view
    /\ api_call = Idle
    /\ validate_fields(view_data(req), required_fields(view)) = None
    /\ \E train \in TrainOutcomes, classes \in Vocabularies :
          LET f     == files_after_training(train, classes, encoder_file, model_file)
              model == get_growth_risk_model(train, classes, encoder_file, model_file)
              n     == IF model.ok THEN Len(model.val) ELSE 2
          IN  \E y_pred \in 0..(n - 1), peak \in 1..n, c \in ConfidenceInputs :
                 /\ risk_call' =
                       [op  |-> "predict_growth_risk",
                        out |-> predict_growth_risk(prediction_arguments(req.data),
                                    train, classes, encoder_file, model_file,
                                    y_pred, proba(n, peak, c))]
                 \* get_growth_risk_model ran unless the call was refused
                 \* before the "Load model and encoder" block
                 /\ encoder_file' = IF reaches_model_load(prediction_arguments(req.data)) THEN f.encoder
                                    ELSE encoder_file
                 /\ model_file' = IF reaches_model_load(prediction_arguments(req.data)) THEN f.model
                                  ELSE model_file
                 /\ IF view = "add_growth_record"
                    THEN /\ api_call' =
                               [op       |-> view,
                                response |-> add_growth_record(view_data(req),
                                                 babies, growth_records,
                                                 risk_call'.out).response]
                         /\ babies' = add_growth_record(view_data(req),
                                          babies, growth_records, risk_call'.out).babies
                         /\ growth_records' =
                               add_growth_record(view_data(req), babies,
                                   growth_records, risk_call'.out).growth_records
                    ELSE /\ api_call' =
                               [op       |-> view,
                                response |-> predict_growth_risk_api(view_data(req),
                                                                     risk_call'.out)]
                         /\ UNCHANGED <<babies, growth_records>>
    /\ UNCHANGED <<req, lms_vars, norm_vars, clf_call, proj_vars>>

\* The add_growth_record view serves a request.
AddGrowthRecord ==
    /\ req.op = "add_growth_record"
    /\ ServeRequest("add_growth_record")

\* The predict_growth_risk_api view serves a request.
PredictGrowthRiskApi ==
    /\ req.op = "predict_growth_risk_api"
    /\ ServeRequest("predict_growth_risk_api")

NextApi == RejectRequest \/ AddGrowthRecord \/ PredictGrowthRiskApi

SpecApi == InitApi /\ [][NextApi]_vars

---------------------------------------------------------------------------
(* Properties of the views *)

ApiDone == req.op \in {"add_growth_record", "predict_growth_risk_api"} /\ api_call # Idle

\* The view got as far as calling predict_growth_risk.
ApiPredicted == ApiDone /\ risk_call # Idle

\* C26: add_growth_record, called with all required fields and a prediction
\* that succeeds, creates exactly one GrowthRecord carrying the prediction's
\* risk category and anomaly flag and answers 201 with the new record's id.
C26_RecordCreatedOnSuccess ==
    ( /\ ApiPredicted
      /\ req.op = "add_growth_record"
      /\ risk_call.out.status = "success" )
    => /\ Len(growth_records) = 1
       /\ growth_records[1].classification = risk_call.out.risk_status
       /\ growth_records[1].anomaly = risk_call.out.is_anomaly
       /\ api_call.response.status_code = 201
       /\ api_call.response.body.status = "success"
       /\ api_call.response.body.record_id = growth_records[1].id

\* C30: predict_growth_risk_api answers with an error whenever its
\* predict_growth_risk call returned an error outcome.
C30_ApiReportsErrors ==
    ( /\ ApiPredicted
      /\ req.op = "predict_growth_risk_api"
      /\ risk_call.out.status = "error" )
    => /\ api_call.response.body.status = "error"
       /\ api_call.response.status_code >= 400

=============================================================================
